---- MODULE Spec2Model ----
(***************************************************************************)
(* Nose-pattern fingerprinting and duplicate resolution of the loan        *)
(* origination backend.                                                    *)
(*                                                                         *)
(* The store is the loan_applications collection; a fingerprint is the set *)
(* of nose_pattern_* fields of one application document.  The route        *)
(* process_cow_face_manual_zoom is a coroutine: it is modelled as one      *)
(* action per database round trip (the points where the event loop may run *)
(* another request), with the synchronous image processing attached to the *)
(* first of them.                                                          *)
(***************************************************************************)
EXTENDS Integers, Sequences, FiniteSets, TLC

(* ------------------------------ bounds --------------------------------- *)
(* Applications, concurrently running requests, operators and requests    *)
(* received in all of the concurrent specification; applications of the    *)
(* one-after-the-other scenario.                                           *)
MaxApps == 2
NumReq == 1
NumOperators == 1
MaxRequests == 3
SeqApps == 4

(* The two submissions of the duplicate-check race and their applications. *)
RaceReqs == {1, 2}
RaceApps == {1, 2}

AppIds == 1..(IF MaxApps > SeqApps THEN MaxApps ELSE SeqApps)
ConcApps == 1..MaxApps
ReqIds == 1..NumReq
AllReqs == ReqIds \cup RaceReqs
Operators == 1..NumOperators

(* Python None for an application id, a feature list and a hash. *)
NoApp == 0
NoFeatures == << >>
NoHash == << >>

(* ------------------------------ inputs --------------------------------- *)
(* An image payload is represented by what the processor measures on it:   *)
(* its size, the number of contours found, the grey mean and standard      *)
(* deviation, the Laplacian variance and the edge density (per mille).     *)
(* decodable = FALSE is a payload that base64/PIL cannot open.             *)
ImgSize == 4

Image(c, m, s, l, e) ==
    [decodable |-> TRUE, w |-> ImgSize, h |-> ImgSize,
     contours |-> c, mean |-> m, std |-> s, lap |-> l, edge |-> e]

ImgA == Image(1, 2, 4, 600, 50)
ImgRelit == Image(2, 3, 5, 700, 60)
ImgNear == Image(1, 2, 5, 600, 50)
ImgOther == Image(4, 0, 1, 200, 90)
ImgBlack == Image(0, 0, 0, 0, 0)
ImgCorrupt == [decodable |-> FALSE, w |-> 0, h |-> 0,
               contours |-> 0, mean |-> 0, std |-> 0, lap |-> 0, edge |-> 0]

Images == {ImgA, ImgRelit, ImgNear, ImgOther, ImgBlack, ImgCorrupt}

ConcImages == {ImgA, ImgBlack, ImgCorrupt}

RaceImages == {ImgA, ImgRelit, ImgBlack}

Rect(x, y, w, h) == [x |-> x, y |-> y, width |-> w, height |-> h]

Crops == {Rect(0, 0, ImgSize, ImgSize), Rect(2, 2, ImgSize, ImgSize),
          Rect(1, 1, 0, 2)}

(* The crops of the concurrent requests: one that is accepted and one that *)
(* is refused.                                                             *)
ConcCrops == {Rect(0, 0, ImgSize, ImgSize), Rect(1, 1, 0, 2)}

(* A region is uniform when its grey levels have zero variance. *)
IsUniform(img) == img.decodable /\ img.std = 0

(* --------------------------- pure helpers ------------------------------ *)
Abs(x) == IF x < 0 THEN -x ELSE x

Min(a, b) == IF a <= b THEN a ELSE b

RECURSIVE GCD(_, _)
GCD(a, b) == IF b = 0 THEN a ELSE GCD(b, a % b)

RECURSIVE SumSeq(_)
SumSeq(s) == IF s = << >> THEN 0 ELSE Head(s) + SumSeq(Tail(s))

RECURSIVE GCDSeq(_)
GCDSeq(s) == IF s = << >> THEN 0 ELSE GCD(Abs(Head(s)), GCDSeq(Tail(s)))

Dot(p, q) == SumSeq([i \in 1..Len(p) |-> p[i] * q[i]])

Max(a, b) == IF a >= b THEN a ELSE b

(* The indices lo..hi-1 that the slice [start:stop] keeps of an axis of     *)
(* length n: a negative index counts from the end, both ends are clipped.  *)
SliceBounds(start, stop, n) ==
    LET s == IF start < 0 THEN Max(0, start + n) ELSE Min(start, n)
        e == IF stop < 0 THEN Max(0, stop + n) ELSE Min(stop, n)
    IN [lo |-> s, hi |-> Max(s, e)]

(* A region of the image, columns x0..x1-1 and rows y0..y1-1; None. *)
Region(cols, rows) ==
    [ok |-> TRUE, x0 |-> cols.lo, x1 |-> cols.hi, y0 |-> rows.lo, y1 |-> rows.hi]

NoRegion == [ok |-> FALSE, x0 |-> 0, x1 |-> 0, y0 |-> 0, y1 |-> 0]

(* image_processor._extract_nose_area: None unless x, y >= 0 and the far   *)
(* corner is inside the image; then the slice [y:y+height, x:x+width], and *)
(* cv2.resize raises on an empty slice, which the except turns to None.    *)
NoseAreaRegion(img, zoom) ==
    IF zoom.x < 0 \/ zoom.y < 0
       \/ zoom.x + zoom.width > img.w \/ zoom.y + zoom.height > img.h
    THEN NoRegion
    ELSE LET cols == SliceBounds(zoom.x, zoom.x + zoom.width, img.w)
             rows == SliceBounds(zoom.y, zoom.y + zoom.height, img.h)
         IN IF cols.lo = cols.hi \/ rows.lo = rows.hi
            THEN NoRegion
            ELSE Region(cols, rows)

ExtractNoseArea(img, zoom) ==
    IF NoseAreaRegion(img, zoom).ok THEN "region" ELSE "None"

(* cow_nose_processor._extract_manual_nose_area: x and y are moved into    *)
(* the image, width and height cut at the far edge, then the same slice    *)
(* and resize.                                                             *)
ExtractManualNoseArea(img, zoom) ==
    LET x == Max(0, Min(zoom.x, img.w - 1))
        y == Max(0, Min(zoom.y, img.h - 1))
        width == Min(zoom.width, img.w - x)
        height == Min(zoom.height, img.h - y)
        cols == SliceBounds(x, x + width, img.w)
        rows == SliceBounds(y, y + height, img.h)
    IN IF cols.lo = cols.hi \/ rows.lo = rows.hi
       THEN NoRegion
       ELSE Region(cols, rows)

(* _extract_nose_pattern: the feature vector in its fixed order (contour   *)
(* features, texture statistics, ...); no test for a uniform region.       *)
ExtractNosePattern(img) == <<img.contours, img.mean, img.std>>

(* The rounded normalised vector that _generate_pattern_hash digests:      *)
(* np.round((f - mean) / (std + 1e-8), ...), here in units of 1/Quantum    *)
(* (the code keeps four decimals; two keep the products in machine range). *)
(* With c = n*f - sum(f), the normalised component is c*sqrt(n/sum(c^2)).  *)
Quantum == 100

RoundedRoot(a, b) ==
    CHOOSE k \in 0..a : /\ 4 * a < (2 * k + 1) * (2 * k + 1) * b
                        /\ (k = 0 \/ (2 * k - 1) * (2 * k - 1) * b <= 4 * a)

QuantizedFeatures(f) ==
    LET n == Len(f)
        c == [i \in 1..n |-> n * f[i] - SumSeq(f)]
        ss == Dot(c, c)
    IN [i \in 1..n |->
          IF ss = 0 THEN 0
          ELSE LET r == RoundedRoot(Quantum * Quantum * c[i] * c[i] * n, ss)
               IN IF c[i] < 0 THEN 0 - r ELSE r]

(* Variant: the raw feature values digested, without normalising and      *)
(* rounding them.                                                          *)
GeneratePatternHash_Raw(f) == f

(* _generate_pattern_hash: (f - mean) / (std + 1e-8) rounded to 4 places,  *)
(* then joined and digested.  Two vectors normalise to the same rounded    *)
(* vector exactly when their centred vectors are positive multiples of     *)
(* each other, so the digest is represented by the reduced centred vector. *)
GeneratePatternHash(f) ==
    LET n == Len(f)
        centred == [i \in 1..n |-> n * f[i] - SumSeq(f)]
        g == GCDSeq(centred)
    IN IF g = 0 THEN centred ELSE [i \in 1..n |-> centred[i] \div g]

(* Variant: the average of the three metrics without "min(1.0, ...)". *)
CalculatePatternConfidence_Uncapped(img) ==
    (img.lap + 10 * img.std + 10 * img.edge) \div 3

(* _calculate_pattern_confidence, in thousandths:                          *)
(* min(1.0, (laplacian_var/1000 + contrast/100 + edge_density*10) / 3).    *)
CalculatePatternConfidence(img) ==
    Min(1000, (img.lap + 10 * img.std + 10 * img.edge) \div 3)

(* cow_nose_processor._assess_pattern_quality, in thousandths: four        *)
(* factors capped at 0.3, 0.3, 0.2 and 0.2, their sum capped at 1.0, and   *)
(* 0.5 from the except clause.  m.entropy is the LBP entropy in            *)
(* thousandths, m.has_lbp whether the pattern data has a histogram.        *)
AssessPatternQuality(m) ==
    IF m.raises THEN 500
    ELSE LET keypoint_score == Min(300, 5 * (m.orb_count + m.sift_count))
             clarity_score == Min(300, 2 * m.lap)
             edge_score == Min(200, 2 * m.edge)
             pattern_score == IF m.has_lbp THEN Min(200, m.entropy \div 10) ELSE 0
         IN Min(1000, keypoint_score + clarity_score + edge_score + pattern_score)

(* compare_patterns: |cosine|, 0.0 on a length mismatch or a zero norm.    *)
(* The value is kept as the fraction num/den of its square.                *)
ComparePatterns(p1, p2) ==
    IF Len(p1) # Len(p2) THEN [num |-> 0, den |-> 1]
    ELSE IF Dot(p1, p1) * Dot(p2, p2) = 0 THEN [num |-> 0, den |-> 1]
    ELSE [num |-> Dot(p1, p2) * Dot(p1, p2), den |-> Dot(p1, p1) * Dot(p2, p2)]

(* self.pattern_threshold = 0.85; sim > 0.85 iff sim^2 > 289/400. *)
PatternThresholdNum == 289
PatternThresholdDen == 400

ExceedsThreshold(sim) ==
    sim.num * PatternThresholdDen > PatternThresholdNum * sim.den

(* ---- cow_nose_processor.compare_patterns, in units of 1/Scale ---------- *)
Scale == 100

StatKeys == {"mean", "std", "median"}

MomentKeys == {"m00", "m10", "m01", "m20", "m11", "m02"}

RECURSIVE ProdOver(_, _)
ProdOver(f, S) ==
    IF S = {} THEN 1
    ELSE LET k == CHOOSE x \in S : TRUE IN f[k] * ProdOver(f, S \ {k})

(* cv2.compareHist(h1, h2, HISTCMP_CORREL), rounded down: the correlation  *)
(* of the two histograms, 1 when either of them is flat.                   *)
HistCorrel(h1, h2) ==
    LET n == Len(h1)
        num == n * Dot(h1, h2) - SumSeq(h1) * SumSeq(h2)
        den2 == (n * Dot(h1, h1) - SumSeq(h1) * SumSeq(h1))
                  * (n * Dot(h2, h2) - SumSeq(h2) * SumSeq(h2))
    IN IF den2 = 0 THEN Scale
       ELSE IF num >= 0
       THEN CHOOSE k \in 0..Scale :
               /\ k * k * den2 <= Scale * Scale * num * num
               /\ (k + 1) * (k + 1) * den2 > Scale * Scale * num * num
       ELSE 0 - (CHOOSE k \in 0..Scale :
               /\ k * k * den2 <= Scale * Scale * num * num
               /\ (k + 1) * (k + 1) * den2 > Scale * Scale * num * num)

(* compareHist refuses histograms of different sizes: cv2.error. *)
HistRaises(h1, h2) == Len(h1) > 0 /\ Len(h2) > 0 /\ Len(h1) # Len(h2)

(* Variant: the correlation weighted without "max(0, ...)". *)
HistTerm_Unclamped(h1, h2) ==
    IF Len(h1) > 0 /\ Len(h2) > 0 THEN HistCorrel(h1, h2) ELSE 0

(* "if len(h1) > 0 and len(h2) > 0: ... max(0, corr)". *)
HistTerm(h1, h2) ==
    IF Len(h1) > 0 /\ Len(h2) > 0 THEN Max(0, HistCorrel(h1, h2)) ELSE 0

(* Variant: the difference divided by the first value alone. *)
StatTerm_OneSided(s1, s2) ==
    IF s1.keys = {} \/ s2.keys = {} THEN 0
    ELSE LET both == s1.keys \cap s2.keys
             m == [k \in both |-> Max(s1.v[k], 1)]
             d == [k \in both |-> m[k] - Min(m[k], Abs(s1.v[k] - s2.v[k]))]
         IN (Scale * ProdOver(d, both)) \div ProdOver(m, both)

(* "if stats1 and stats2": the product over the keys both have of          *)
(* 1 - min(1, |a - b| / max(a, b, 1)).                                     *)
StatTerm(s1, s2) ==
    IF s1.keys = {} \/ s2.keys = {} THEN 0
    ELSE LET both == s1.keys \cap s2.keys
             m == [k \in both |-> Max(Max(s1.v[k], s2.v[k]), 1)]
             d == [k \in both |-> m[k] - Min(m[k], Abs(s1.v[k] - s2.v[k]))]
         IN (Scale * ProdOver(d, both)) \div ProdOver(m, both)

(* "if moments1 and moments2": the same product over the key moments both  *)
(* have with a positive value, the divisor being max(a, b).                *)
MomentTerm(m1, m2) ==
    IF m1.keys = {} \/ m2.keys = {} THEN 0
    ELSE LET both == {k \in (m1.keys \cap m2.keys) \cap MomentKeys :
                         m1.v[k] > 0 /\ m2.v[k] > 0}
             m == [k \in both |-> Max(m1.v[k], m2.v[k])]
             d == [k \in both |-> m[k] - Min(m[k], Abs(m1.v[k] - m2.v[k]))]
         IN (Scale * ProdOver(d, both)) \div ProdOver(m, both)

(* The weights 0.4, 0.3, 0.2 and 0.1, in tenths. *)
WeightedTerms(d1, d2) ==
    <<4 * HistTerm(d1.lbp_histogram, d2.lbp_histogram),
      3 * HistTerm(d1.edge_histogram, d2.edge_histogram),
      2 * StatTerm(d1.image_stats, d2.image_stats),
      1 * MomentTerm(d1.moments, d2.moments)>>

(* Variant: a missing histogram treated like one that makes compareHist    *)
(* raise.                                                                  *)
CompareNosePatterns_MissingRaises(d1, d2) ==
    IF \/ Len(d1.lbp_histogram) # Len(d2.lbp_histogram)
       \/ Len(d1.edge_histogram) # Len(d2.edge_histogram)
    THEN 0
    ELSE Min(10 * Scale, SumSeq(WeightedTerms(d1, d2)))

(* compare_patterns of cow_nose_processor, in units of 1/(10 * Scale):     *)
(* min(1.0, sum of the weighted terms), 0.0 when anything raised.          *)
CompareNosePatterns(d1, d2) ==
    IF HistRaises(d1.lbp_histogram, d2.lbp_histogram)
       \/ HistRaises(d1.edge_histogram, d2.edge_histogram)
    THEN 0
    ELSE Min(10 * Scale, SumSeq(WeightedTerms(d1, d2)))

(* process_cow_face_with_manual_zoom: every exception becomes              *)
(* success = False.                                                        *)
ProcessCowFaceWithManualZoom(img, zoom) ==
    IF ~img.decodable
    THEN [success |-> FALSE, error |-> "exception",
          pattern_features |-> NoFeatures, pattern_hash |-> NoHash,
          pattern_confidence |-> 0]
    ELSE IF ExtractNoseArea(img, zoom) = "None"
    THEN [success |-> FALSE, error |-> "Invalid zoom coordinates provided",
          pattern_features |-> NoFeatures, pattern_hash |-> NoHash,
          pattern_confidence |-> 0]
    ELSE [success |-> TRUE, error |-> "",
          pattern_features |-> ExtractNosePattern(img),
          pattern_hash |-> GeneratePatternHash(ExtractNosePattern(img)),
          pattern_confidence |-> CalculatePatternConfidence(img)]

(* ------------------------------- state --------------------------------- *)
(* loan_applications: the collection, by _id.  req: the running requests.  *)
(* last_success: per application, the fingerprint of the submission that   *)
(* most recently returned success for it, and started: the number of       *)
(* requests received so far (both are history, not program state).         *)
(* calc: one call of a function of the processors, its arguments and its   *)
(* result, for the specification that exercises them on their own.         *)
(* processor: the attributes of the module-level processor instances that  *)
(* every request shares.                                                   *)
VARIABLES loan_applications, req, last_success, started, calc, processor

vars == <<loan_applications, req, last_success, started, calc, processor>>

(* A document of db.loan_applications (the fields the routes below use);   *)
(* processed = FALSE stands for the nose_pattern_* fields being None.      *)
(* status holds the value of a LoanStatus member.  A timestamp written by  *)
(* a route is the reading of the clock (the number of requests received    *)
(* so far) at the write, 0 is None or the time of creation.                *)
NewApplication(op) ==
    [state |-> "present", operator_id |-> op,
     nose_pattern_features |-> NoFeatures, nose_pattern_hash |-> NoHash,
     nose_pattern_confidence |-> 0, processed |-> FALSE,
     is_duplicate_pattern |-> FALSE, duplicate_application_id |-> NoApp,
     status |-> "pending", manager_id |-> 0, rejection_reason |-> FALSE,
     verified_at |-> 0, approved_at |-> 0, updated_at |-> 0]

AbsentApplication == [NewApplication(0) EXCEPT !.state = "absent"]

DeletedApplication == [NewApplication(0) EXCEPT !.state = "deleted"]

(* A request slot: the locals of one running coroutine and its response. *)
IdleRequest ==
    [pc |-> "idle", kind |-> "none", operator |-> 0, application_id |-> NoApp,
     subject |-> NoApp,
     pattern_features |-> NoFeatures, pattern_hash |-> NoHash,
     pattern_confidence |-> 0,
     is_duplicate |-> FALSE, duplicate_application |-> NoApp,
     status |-> 0, queried |-> FALSE, wrote |-> FALSE,
     store_failed |-> FALSE,
     manager |-> 0, app_status |-> "none", app_operator |-> 0,
     overall_status |-> FALSE]

NoCall == [pc |-> "none", fn |-> "none"]

(* The attributes __init__ gives the shared instances: pattern_threshold   *)
(* (per cent) of image_processor; min_image_size, target_nose_size and     *)
(* quality_threshold (per cent) of cow_nose_processor.                     *)
NewProcessor ==
    [pattern_threshold |-> 85, min_image_size |-> <<800, 600>>,
     target_nose_size |-> <<400, 400>>, quality_threshold |-> 70]

NoFingerprint == [features |-> NoFeatures, hash |-> NoHash, confidence |-> 0]

Present(a) == loan_applications[a].state = "present"

(* Variant: the "_id" clause written without "$ne". *)
FindByHash_SelfOnly(h, excl) ==
    {b \in AppIds : /\ Present(b)
                    /\ loan_applications[b].nose_pattern_hash = h
                    /\ b = excl}

(* Variant: the query without the "$ne" clause. *)
FindByHash_NoExclusion(h, excl) ==
    {b \in AppIds : /\ Present(b)
                    /\ loan_applications[b].nose_pattern_hash = h}

(* find_one({"nose_pattern_hash": h, "_id": {"$ne": excl}}): the set of    *)
(* documents the query matches; find_one returns any one of them.          *)
FindByHash(h, excl) ==
    {b \in AppIds : /\ Present(b)
                    /\ loan_applications[b].nose_pattern_hash = h
                    /\ b # excl}

(* Variant: the query on "_id" alone. *)
FindOwned_AnyOperator(op, a) == Present(a)

(* loan_applications.find_one({"_id": a, "operator_id": current_user})     *)
(* finds a document.                                                       *)
FindOwned(op, a) == Present(a) /\ loan_applications[a].operator_id = op

Init ==
    /\ loan_applications = [a \in AppIds |-> AbsentApplication]
    /\ req = [r \in AllReqs |-> IdleRequest]
    /\ last_success = [a \in AppIds |-> NoFingerprint]
    /\ started = 0
    /\ calc = NoCall
    /\ processor = NewProcessor

(* ------------------------------ actions -------------------------------- *)
(* create_loan_application: insert_one; _ids are handed out in order. *)
CreateLoanApplication(op, a) ==
    /\ loan_applications[a].state = "absent"
    /\ \A b \in AppIds : b < a => loan_applications[b].state # "absent"
    /\ loan_applications' = [loan_applications EXCEPT ![a] = NewApplication(op)]
    /\ UNCHANGED <<req, last_success, started, calc, processor>>

(* delete_loan_application: find_one then delete_one on _id; the document  *)
(* and its fingerprint are gone and the _id is never handed out again.     *)
DeleteLoanApplication(a) ==
    /\ Present(a)
    /\ loan_applications' = [loan_applications EXCEPT ![a] = DeletedApplication]
    /\ last_success' = [last_success EXCEPT ![a] = NoFingerprint]
    /\ UNCHANGED <<req, started, calc, processor>>

(* A request is taken by the first idle slot (the slots are alike). *)
FreeSlot(r) ==
    /\ req[r].pc = "idle"
    /\ \A q \in AllReqs : q < r => req[q].pc # "idle"

(* The except clauses of the routes: an exception of the database driver   *)
(* becomes HTTP 500 and the coroutine ends.                                *)
StoreUnavailable(rq) ==
    [IdleRequest EXCEPT !.pc = "done", !.kind = rq.kind, !.status = 500,
                        !.operator = rq.operator,
                        !.application_id = rq.application_id,
                        !.subject = rq.subject,
                        !.queried = rq.queried, !.store_failed = TRUE]

(* Variant: the route without its "if not result['success']" test. *)
AfterProcessing_NoCheck(base, result) ==
    [base EXCEPT !.pc = "query",
                 !.pattern_features = result.pattern_features,
                 !.pattern_hash = result.pattern_hash,
                 !.pattern_confidence = result.pattern_confidence]

(* Variant: a result of low confidence refused like a failed one. *)
AfterProcessing_QualityGate(base, result) ==
    IF ~result.success \/ result.pattern_confidence < 700
    THEN [base EXCEPT !.pc = "done", !.status = 400]
    ELSE [base EXCEPT !.pc = "query",
                      !.pattern_features = result.pattern_features,
                      !.pattern_hash = result.pattern_hash,
                      !.pattern_confidence = result.pattern_confidence]

(* What the route does with the processor's result: 400 without success,   *)
(* otherwise on to the duplicate query with the result as locals.          *)
AfterProcessing(base, result) ==
    IF ~result.success
    THEN [base EXCEPT !.pc = "done", !.status = 400]
    ELSE [base EXCEPT !.pc = "query",
                      !.pattern_features = result.pattern_features,
                      !.pattern_hash = result.pattern_hash,
                      !.pattern_confidence = result.pattern_confidence]

(* process_cow_face_manual_zoom, up to the duplicate query: the ownership  *)
(* find_one (404 when it finds nothing), then the synchronous processing.  *)
ProcessBegin(r, op, a, img, zoom, dbok) ==
    /\ FreeSlot(r)
    /\ LET result == ProcessCowFaceWithManualZoom(img, zoom)
           owned == FindOwned(op, a)
           base == [IdleRequest EXCEPT !.kind = "process",
                                       !.application_id = a, !.subject = a]
       IN req' = [req EXCEPT ![r] =
            IF ~dbok THEN StoreUnavailable(base)
            ELSE IF ~owned THEN [base EXCEPT !.pc = "done", !.status = 404]
            ELSE AfterProcessing([base EXCEPT !.operator = op], result)]
    /\ started' = started + 1
    /\ UNCHANGED <<loan_applications, last_success, calc, processor>>

(* The verdict the route derives from the outcome of find_one. *)
Verdict(rq, existing_app) ==
    IF existing_app = NoApp
    THEN [rq EXCEPT !.pc = "update", !.queried = TRUE]
    ELSE [rq EXCEPT !.pc = "update", !.queried = TRUE,
                    !.is_duplicate = TRUE,
                    !.duplicate_application = existing_app]

(* Variant: an exception of the duplicate query is swallowed and the       *)
(* route carries on as if nothing had matched.                             *)
QueryFailed_Open(rq) ==
    [rq EXCEPT !.pc = "update", !.store_failed = TRUE]

(* What an exception of the duplicate query leads to. *)
QueryFailed(rq) == StoreUnavailable(rq)

(* The duplicate query: find_one on the hash excluding the requester, then *)
(* the applicants lookup of the match; either may raise.                   *)
ProcessFindExisting(r, dbok) ==
    /\ req[r].pc = "query"
    /\ LET matches == FindByHash(req[r].pattern_hash, req[r].application_id)
       IN IF ~dbok
          THEN req' = [req EXCEPT ![r] = QueryFailed(req[r])]
          ELSE IF matches = {}
          THEN req' = [req EXCEPT ![r] = Verdict(req[r], NoApp)]
          ELSE \E existing_app \in matches :
                 req' = [req EXCEPT ![r] = Verdict(req[r], existing_app)]
    /\ UNCHANGED <<loan_applications, last_success, started, calc, processor>>

(* Variant: a fingerprint once stored is kept, later ones are dropped. *)
StoreFingerprint_KeepFirst(doc, rq) ==
    IF doc.processed
    THEN doc
    ELSE [doc EXCEPT !.nose_pattern_features = rq.pattern_features,
                     !.nose_pattern_hash = rq.pattern_hash,
                     !.nose_pattern_confidence = rq.pattern_confidence,
                     !.processed = TRUE,
                     !.is_duplicate_pattern = rq.is_duplicate,
                     !.duplicate_application_id = rq.duplicate_application]

(* Variant: the fingerprint is written only with a Unique verdict. *)
StoreFingerprint_OnlyUnique(doc, rq) ==
    IF rq.is_duplicate
    THEN [doc EXCEPT !.processed = TRUE,
                     !.is_duplicate_pattern = TRUE,
                     !.duplicate_application_id = rq.duplicate_application]
    ELSE [doc EXCEPT !.nose_pattern_features = rq.pattern_features,
                     !.nose_pattern_hash = rq.pattern_hash,
                     !.nose_pattern_confidence = rq.pattern_confidence,
                     !.processed = TRUE,
                     !.is_duplicate_pattern = FALSE,
                     !.duplicate_application_id = NoApp]

(* update_data of the route, $set on the requester's document. *)
StoreFingerprint(doc, rq) ==
    [doc EXCEPT !.nose_pattern_features = rq.pattern_features,
                !.nose_pattern_hash = rq.pattern_hash,
                !.nose_pattern_confidence = rq.pattern_confidence,
                !.processed = TRUE,
                !.is_duplicate_pattern = rq.is_duplicate,
                !.duplicate_application_id = rq.duplicate_application]

(* Variant: the matched application is annotated as well. *)
UpdateApplication_MarkBoth(a, rq) ==
    IF Present(a)
    THEN [b \in AppIds |->
            IF b = a THEN StoreFingerprint(loan_applications[a], rq)
            ELSE IF rq.is_duplicate /\ b = rq.duplicate_application
            THEN [loan_applications[b] EXCEPT !.is_duplicate_pattern = TRUE,
                                              !.duplicate_application_id = a]
            ELSE loan_applications[b]]
    ELSE loan_applications

(* The collection after update_one({"_id": application_id}, {"$set": ...}): *)
(* the filter names the requester's document and no other; on a deleted    *)
(* document it matches nothing and does not raise.                         *)
UpdateApplication(a, rq) ==
    IF Present(a)
    THEN [loan_applications EXCEPT ![a] = StoreFingerprint(loan_applications[a], rq)]
    ELSE loan_applications

(* The write-back of process_cow_face_manual_zoom and its return. *)
ProcessUpdate(r, dbok) ==
    /\ req[r].pc = "update"
    /\ UNCHANGED <<started, calc, processor>>
    /\ LET a == req[r].application_id
       IN IF ~dbok
          THEN /\ req' = [req EXCEPT ![r] = StoreUnavailable(req[r])]
               /\ UNCHANGED <<loan_applications, last_success>>
          ELSE /\ loan_applications' = UpdateApplication(a, req[r])
               /\ req' = [req EXCEPT ![r].pc = "done", ![r].status = 200,
                                     ![r].wrote = Present(a)]
               /\ last_success' =
                    IF Present(a)
                    THEN [last_success EXCEPT ![a] =
                            [features |-> req[r].pattern_features,
                             hash |-> req[r].pattern_hash,
                             confidence |-> req[r].pattern_confidence]]
                    ELSE last_success

(* The query of check_nose_pattern_duplicate: the exclusion is added only  *)
(* when the request carries an application_id.                             *)
CheckQuery(h, application_id) ==
    IF application_id # NoApp
    THEN FindByHash(h, application_id)
    ELSE {b \in AppIds : Present(b) /\ loan_applications[b].nose_pattern_hash = h}

(* check_nose_pattern_duplicate: one find_one and the applicants lookup.   *)
(* subject is the application the operator is working on, supplied says    *)
(* whether the request names it (PatternCheckRequest.application_id is     *)
(* Optional).                                                              *)
CheckNosePatternDuplicate(r, h, subject, supplied, dbok) ==
    /\ FreeSlot(r)
    /\ LET application_id == IF supplied THEN subject ELSE NoApp
           matches == CheckQuery(h, application_id)
           base == [IdleRequest EXCEPT !.kind = "check",
                                       !.application_id = application_id,
                                       !.subject = subject,
                                       !.pattern_hash = h, !.pc = "done"]
       IN IF ~dbok
          THEN req' = [req EXCEPT ![r] = StoreUnavailable(base)]
          ELSE IF matches = {}
          THEN req' = [req EXCEPT ![r] =
                         [base EXCEPT !.status = 200, !.queried = TRUE]]
          ELSE \E existing_app \in matches :
                 req' = [req EXCEPT ![r] =
                           [base EXCEPT !.status = 200, !.queried = TRUE,
                                        !.is_duplicate = TRUE,
                                        !.duplicate_application = existing_app]]
    /\ started' = started + 1
    /\ UNCHANGED <<loan_applications, last_success, calc, processor>>

(* The response has been delivered; the slot serves the next request. *)
Return(r) ==
    /\ req[r].pc = "done"
    /\ req' = [req EXCEPT ![r] = IdleRequest]
    /\ UNCHANGED <<loan_applications, last_success, started, calc, processor>>

HashesOf(imgs) ==
    {GeneratePatternHash(ExtractNosePattern(i)) : i \in {j \in imgs : j.decodable}}

(* The operators take turns registering applications. *)
OwnerOf(a) == 1 + (a % NumOperators)

(* Concurrent requests of several operators on a few applications; the     *)
(* coroutines interleave at every database round trip.                     *)
Next ==
    \/ \E a \in ConcApps : CreateLoanApplication(OwnerOf(a), a)
    \/ \E a \in ConcApps : DeleteLoanApplication(a)
    \/ \E r \in ReqIds, op \in Operators, a \in ConcApps, img \in ConcImages,
          zoom \in ConcCrops, dbok \in BOOLEAN :
         started < MaxRequests /\ ProcessBegin(r, op, a, img, zoom, dbok)
    \/ \E r \in ReqIds, dbok \in BOOLEAN : ProcessFindExisting(r, dbok)
    \/ \E r \in ReqIds, dbok \in BOOLEAN : ProcessUpdate(r, dbok)
    \/ \E r \in ReqIds, h \in HashesOf(ConcImages), subject \in ConcApps,
          supplied \in BOOLEAN, dbok \in BOOLEAN :
         /\ started < MaxRequests
         /\ CheckNosePatternDuplicate(r, h, subject, supplied, dbok)
    \/ \E r \in ReqIds : Return(r)

Spec == Init /\ [][Next]_vars

(* Two requests at a time on two applications, interleaved at every        *)
(* database round trip.                                                    *)
NextRace ==
    \/ \E op \in Operators, a \in RaceApps : CreateLoanApplication(op, a)
    \/ \E r \in RaceReqs, op \in Operators, a \in RaceApps, img \in RaceImages,
          zoom \in Crops, dbok \in BOOLEAN :
         started < MaxRequests /\ ProcessBegin(r, op, a, img, zoom, dbok)
    \/ \E r \in RaceReqs, dbok \in BOOLEAN : ProcessFindExisting(r, dbok)
    \/ \E r \in RaceReqs, dbok \in BOOLEAN : ProcessUpdate(r, dbok)
    \/ \E r \in RaceReqs, h \in HashesOf(RaceImages), subject \in RaceApps,
          supplied \in BOOLEAN, dbok \in BOOLEAN :
         /\ started < MaxRequests
         /\ CheckNosePatternDuplicate(r, h, subject, supplied, dbok)
    \/ \E r \in RaceReqs : Return(r)

SpecRace == Init /\ [][NextRace]_vars

(* Applications created and submitted one after the other, each once, by   *)
(* a single request at a time, with the store available.                   *)
SeqImages == {ImgA, ImgNear, ImgOther}

SeqTurn(a) ==
    /\ ~loan_applications[a].processed
    /\ \A b \in AppIds : b < a => loan_applications[b].processed

NextSeq ==
    \/ \E op \in Operators, a \in 1..SeqApps : CreateLoanApplication(op, a)
    \/ \E op \in Operators, a \in 1..SeqApps, img \in SeqImages :
         /\ SeqTurn(a)
         /\ loan_applications[a].operator_id = op
         /\ ProcessBegin(1, op, a, img, Rect(0, 0, ImgSize, ImgSize), TRUE)
    \/ ProcessFindExisting(1, TRUE)
    \/ ProcessUpdate(1, TRUE)
    \/ Return(1)

SpecSeq == Init /\ [][NextSeq]_vars

(* --------------------- verification and decision ----------------------- *)
(* The operator routes that verify an application and the manager routes   *)
(* that approve or reject it, as coroutines that interleave at every       *)
(* database round trip.  Every operator account was created by one of two  *)
(* managers (create_operator stores created_by, no route changes it).      *)
Managers == {1, 2}

CreatedBy(op) == 1 + (op % 2)

(* Variant: the users query without its "created_by" clause. *)
FindOperator_AnyCreator(operator_id, manager) == operator_id \in Operators

(* users.find_one({"_id": app["operator_id"], "created_by": current_user}) *)
(* finds a document.                                                       *)
FindOperator(operator_id, manager) ==
    operator_id \in Operators /\ CreatedBy(operator_id) = manager

(* The first find_one of approve_ and reject_loan_application: 404, or the *)
(* document as it is now, kept in the local app.                           *)
ManagerFindApplication(r, kind, manager, a) ==
    /\ FreeSlot(r)
    /\ LET base == [IdleRequest EXCEPT !.kind = kind, !.manager = manager,
                                       !.application_id = a, !.subject = a]
       IN req' = [req EXCEPT ![r] =
            IF ~Present(a)
            THEN [base EXCEPT !.pc = "done", !.status = 404]
            ELSE [base EXCEPT !.pc = "operator",
                              !.app_status = loan_applications[a].status,
                              !.app_operator = loan_applications[a].operator_id]]
    /\ started' = started + 1
    /\ UNCHANGED <<loan_applications, last_success, calc, processor>>

ApproveFindApplication(r, manager, a) == ManagerFindApplication(r, "approve", manager, a)

RejectFindApplication(r, manager, a) == ManagerFindApplication(r, "reject", manager, a)

(* approve_loan_application after the users query: 403 when it found       *)
(* nothing, 400 unless the status read by the first find_one is VERIFIED.  *)
ApproveFindOperator(r) ==
    /\ req[r].pc = "operator" /\ req[r].kind = "approve"
    /\ req' = [req EXCEPT ![r] =
         IF ~FindOperator(req[r].app_operator, req[r].manager)
         THEN [req[r] EXCEPT !.pc = "done", !.status = 403]
         ELSE IF req[r].app_status # "verified"
         THEN [req[r] EXCEPT !.pc = "done", !.status = 400]
         ELSE [req[r] EXCEPT !.pc = "decide"]]
    /\ UNCHANGED <<loan_applications, last_success, started, calc, processor>>

(* reject_loan_application after the users query: 403, or on to the write  *)
(* whatever the status.                                                    *)
RejectFindOperator(r) ==
    /\ req[r].pc = "operator" /\ req[r].kind = "reject"
    /\ req' = [req EXCEPT ![r] =
         IF ~FindOperator(req[r].app_operator, req[r].manager)
         THEN [req[r] EXCEPT !.pc = "done", !.status = 403]
         ELSE [req[r] EXCEPT !.pc = "decide"]]
    /\ UNCHANGED <<loan_applications, last_success, started, calc, processor>>

(* The collection after update_one({"_id": a}, {"$set": fields}): the      *)
(* filter is the _id alone.                                                *)
SetFields(a, doc) ==
    IF Present(a)
    THEN [loan_applications EXCEPT ![a] = doc]
    ELSE loan_applications

(* update_one of approve_loan_application and its return. *)
ApproveUpdate(r) ==
    /\ req[r].pc = "decide" /\ req[r].kind = "approve"
    /\ LET a == req[r].application_id
       IN /\ loan_applications' = SetFields(a,
                 [loan_applications[a] EXCEPT !.status = "approved",
                                              !.manager_id = req[r].manager,
                                              !.approved_at = started,
                                              !.updated_at = started])
          /\ req' = [req EXCEPT ![r].pc = "done", ![r].status = 200,
                                ![r].wrote = Present(a)]
    /\ UNCHANGED <<last_success, started, calc, processor>>

(* update_one of reject_loan_application and its return. *)
RejectUpdate(r) ==
    /\ req[r].pc = "decide" /\ req[r].kind = "reject"
    /\ LET a == req[r].application_id
       IN /\ loan_applications' = SetFields(a,
                 [loan_applications[a] EXCEPT !.status = "rejected",
                                              !.manager_id = req[r].manager,
                                              !.rejection_reason = TRUE,
                                              !.updated_at = started])
          /\ req' = [req EXCEPT ![r].pc = "done", ![r].status = 200,
                                ![r].wrote = Present(a)]
    /\ UNCHANGED <<last_success, started, calc, processor>>

(* verify_loan_application up to its write: the ownership find_one (404),  *)
(* then the checklist, whose items all hold or not.                        *)
VerifyFindApplication(r, op, a, overall_status) ==
    /\ FreeSlot(r)
    /\ LET base == [IdleRequest EXCEPT !.kind = "verify", !.operator = op,
                                       !.application_id = a, !.subject = a]
       IN req' = [req EXCEPT ![r] =
            IF ~FindOwned(op, a)
            THEN [base EXCEPT !.pc = "done", !.status = 404]
            ELSE [base EXCEPT !.pc = "verify", !.overall_status = overall_status]]
    /\ started' = started + 1
    /\ UNCHANGED <<loan_applications, last_success, calc, processor>>

(* update_one of verify_loan_application: VERIFIED or PENDING by the       *)
(* checklist alone, whatever the status was.                               *)
VerifyUpdate(r) ==
    /\ req[r].pc = "verify"
    /\ LET a == req[r].application_id
       IN /\ loan_applications' = SetFields(a,
                 [loan_applications[a] EXCEPT
                    !.status = IF req[r].overall_status THEN "verified" ELSE "pending",
                    !.verified_at = IF req[r].overall_status THEN started ELSE 0,
                    !.updated_at = started])
          /\ req' = [req EXCEPT ![r].pc = "done", ![r].status = 200,
                                ![r].wrote = Present(a)]
    /\ UNCHANGED <<last_success, started, calc, processor>>

(* complete_verification: one update_one on the _id, 404 when it modified  *)
(* nothing.                                                                *)
CompleteVerification(r, op, a) ==
    /\ FreeSlot(r)
    /\ LET base == [IdleRequest EXCEPT !.kind = "complete", !.operator = op,
                                       !.application_id = a, !.subject = a,
                                       !.pc = "done"]
       IN /\ loan_applications' = SetFields(a,
                 [loan_applications[a] EXCEPT !.status = "verified",
                                              !.verified_at = started + 1,
                                              !.updated_at = started + 1])
          /\ req' = [req EXCEPT ![r] =
                  IF Present(a)
                  THEN [base EXCEPT !.status = 200, !.wrote = TRUE]
                  ELSE [base EXCEPT !.status = 404]]
    /\ started' = started + 1
    /\ UNCHANGED <<last_success, calc, processor>>

NextFlow ==
    \/ \E op \in Operators, a \in RaceApps : CreateLoanApplication(op, a)
    \/ \E r \in RaceReqs, m \in Managers, a \in RaceApps :
         started < MaxRequests /\ ApproveFindApplication(r, m, a)
    \/ \E r \in RaceReqs : ApproveFindOperator(r)
    \/ \E r \in RaceReqs : ApproveUpdate(r)
    \/ \E r \in RaceReqs, m \in Managers, a \in RaceApps :
         started < MaxRequests /\ RejectFindApplication(r, m, a)
    \/ \E r \in RaceReqs : RejectFindOperator(r)
    \/ \E r \in RaceReqs : RejectUpdate(r)
    \/ \E r \in RaceReqs, op \in Operators, a \in RaceApps, overall_status \in BOOLEAN :
         started < MaxRequests /\ VerifyFindApplication(r, op, a, overall_status)
    \/ \E r \in RaceReqs : VerifyUpdate(r)
    \/ \E r \in RaceReqs, op \in Operators, a \in RaceApps :
         started < MaxRequests /\ CompleteVerification(r, op, a)
    \/ \E r \in RaceReqs : Return(r)

SpecFlow == Init /\ [][NextFlow]_vars

(* ------------------- the processors' functions alone ------------------- *)
(* Crop rectangles around and across the borders of an ImgSize x ImgSize   *)
(* image, negative and zero extents included.                              *)
CropCoords == (0 - 1)..(ImgSize + 1)

RegionInputs ==
    {[pc |-> "input", kind |-> "region", fn |-> "none",
      img |-> ImgA, zoom |-> Rect(x, y, w, h), out |-> NoRegion] :
        x \in CropCoords, y \in CropCoords, w \in CropCoords, h \in CropCoords}

(* image_processor._extract_nose_area applied to the drawn rectangle. *)
ExtractNoseAreaCall ==
    /\ calc.pc = "input" /\ calc.kind = "region"
    /\ calc' = [calc EXCEPT !.pc = "done", !.fn = "_extract_nose_area",
                            !.out = NoseAreaRegion(calc.img, calc.zoom)]
    /\ UNCHANGED <<loan_applications, req, last_success, started, processor>>

(* cow_nose_processor._extract_manual_nose_area applied to it. *)
ExtractManualNoseAreaCall ==
    /\ calc.pc = "input" /\ calc.kind = "region"
    /\ calc' = [calc EXCEPT !.pc = "done", !.fn = "_extract_manual_nose_area",
                            !.out = ExtractManualNoseArea(calc.img, calc.zoom)]
    /\ UNCHANGED <<loan_applications, req, last_success, started, processor>>

(* Feature vectors of image_processor: those of the images, a negated one, *)
(* one of another length and the empty list.                               *)
FeatureVectors ==
    {ExtractNosePattern(i) : i \in {ImgA, ImgRelit, ImgNear, ImgOther, ImgBlack}}
      \cup {<<0 - 1, 0 - 2, 0 - 4>>, <<1, 2>>, << >>}

VectorInputs ==
    {[pc |-> "input", kind |-> "vectors", fn |-> "none",
      a |-> p, b |-> q, out |-> [num |-> 0, den |-> 1]] :
        p \in FeatureVectors, q \in FeatureVectors}

(* Pattern data of cow_nose_processor: every part may be missing (the      *)
(* extractor returns {} when it fails), a histogram may be flat or of      *)
(* another size, a moment may be zero.                                     *)
Stats(ks, mean, std, median) ==
    [keys |-> ks, v |-> [k \in StatKeys |->
        IF k = "mean" THEN mean ELSE IF k = "std" THEN std ELSE median]]

Moments(ks, m00, m10) ==
    [keys |-> ks, v |-> [k \in MomentKeys |->
        IF k = "m00" THEN m00 ELSE IF k = "m10" THEN m10 ELSE 1]]

PatternData ==
    {[lbp_histogram |-> l, edge_histogram |-> e, image_stats |-> st, moments |-> mo] :
        l \in {<< >>, <<1, 3>>, <<2, 2>>, <<3, 1, 0>>},
        e \in {<< >>, <<4, 0>>, <<1, 2>>},
        st \in {Stats({}, 0, 0, 0), Stats(StatKeys, 2, 1, 2),
                Stats(StatKeys, 4, 0, 3), Stats({"mean"}, 2, 0, 0)},
        mo \in {Moments({}, 0, 0), Moments(MomentKeys, 4, 2),
                Moments(MomentKeys, 4, 0), Moments(MomentKeys, 2, 3)}}

DataInputs ==
    {[pc |-> "input", kind |-> "data", fn |-> "none",
      a |-> d1, b |-> d2, out |-> 0] : d1 \in PatternData, d2 \in PatternData}

(* image_processor.compare_patterns applied to the drawn pair. *)
ComparePatternsCall ==
    /\ calc.pc = "input" /\ calc.kind = "vectors"
    /\ calc' = [calc EXCEPT !.pc = "done", !.fn = "compare_patterns",
                            !.out = ComparePatterns(calc.a, calc.b)]
    /\ UNCHANGED <<loan_applications, req, last_success, started, processor>>

(* cow_nose_processor.compare_patterns applied to the drawn pair. *)
CompareNosePatternsCall ==
    /\ calc.pc = "input" /\ calc.kind = "data"
    /\ calc' = [calc EXCEPT !.pc = "done", !.fn = "compare_nose_patterns",
                            !.out = CompareNosePatterns(calc.a, calc.b)]
    /\ UNCHANGED <<loan_applications, req, last_success, started, processor>>

(* Pairs of feature vectors for _generate_pattern_hash. *)
HashInputs ==
    {[pc |-> "input", kind |-> "hash", fn |-> "none",
      a |-> p, b |-> q, out |-> <<NoHash, NoHash>>] :
        p \in FeatureVectors \ {<< >>}, q \in FeatureVectors \ {<< >>}}

(* _generate_pattern_hash applied to each vector of the drawn pair. *)
GeneratePatternHashCall ==
    /\ calc.pc = "input" /\ calc.kind = "hash"
    /\ calc' = [calc EXCEPT !.pc = "done", !.fn = "_generate_pattern_hash",
                            !.out = <<GeneratePatternHash(calc.a),
                                      GeneratePatternHash(calc.b)>>]
    /\ UNCHANGED <<loan_applications, req, last_success, started, processor>>

(* What the two quality functions measure on an enhanced nose image: the   *)
(* keypoints of both detectors, the Laplacian variance, the grey standard  *)
(* deviation, the edge density (per mille) and the LBP entropy.            *)
QualityInputs ==
    {[pc |-> "input", kind |-> "quality", fn |-> "none",
      m |-> [orb_count |-> o, sift_count |-> o, lap |-> l, std |-> sd,
             edge |-> e, has_lbp |-> hl, entropy |-> IF hl THEN en ELSE 0,
             raises |-> ra],
      out |-> 0] :
        o \in {0, 30, 100}, l \in {0, 100, 5000}, sd \in {0, 60, 128},
        e \in {0, 50, 1000}, hl \in BOOLEAN, en \in {0, 1500, 5000},
        ra \in BOOLEAN}

(* image_processor._calculate_pattern_confidence on the drawn measures. *)
CalculatePatternConfidenceCall ==
    /\ calc.pc = "input" /\ calc.kind = "quality" /\ ~calc.m.raises
    /\ calc' = [calc EXCEPT !.pc = "done", !.fn = "_calculate_pattern_confidence",
                            !.out = CalculatePatternConfidence(calc.m)]
    /\ UNCHANGED <<loan_applications, req, last_success, started, processor>>

(* cow_nose_processor._assess_pattern_quality on the drawn measures. *)
AssessPatternQualityCall ==
    /\ calc.pc = "input" /\ calc.kind = "quality"
    /\ calc' = [calc EXCEPT !.pc = "done", !.fn = "_assess_pattern_quality",
                            !.out = AssessPatternQuality(calc.m)]
    /\ UNCHANGED <<loan_applications, req, last_success, started, processor>>

(* Images for the automatic detection: their size and the contours that   *)
(* cv2.findContours returns, each with its bounding rectangle and its      *)
(* contourArea (0 for a contour of one point or one line).                 *)
Contour(x, y, w, h, area) == [x |-> x, y |-> y, w |-> w, h |-> h, area |-> area]

Contours == {Contour(0, 0, 1, 1, 0), Contour(5, 30, 10, 5, 40),
             Contour(30, 10, 25, 30, 600)}

ContourLists(w, h) ==
    LET fit == {c \in Contours : c.x + c.w <= w /\ c.y + c.h <= h}
    IN {<< >>} \cup {<<c>> : c \in fit} \cup {<<c, d>> : c \in fit, d \in fit}

AutoSizes == {<<2, 2>>, <<60, 50>>, <<50, 60>>}

AutoInputs ==
    UNION {{[pc |-> "input", kind |-> "auto", fn |-> "none",
             img |-> [w |-> sz[1], h |-> sz[2], contours |-> cs],
             out |-> NoRegion] : cs \in ContourLists(sz[1], sz[2])} :
           sz \in AutoSizes}

(* padding = 20 *)
Padding == 20

(* max(contours, key=cv2.contourArea): the first of the largest. *)
LargestContour(cs) ==
    cs[CHOOSE i \in 1..Len(cs) :
         /\ \A j \in 1..Len(cs) : cs[j].area <= cs[i].area
         /\ \A j \in 1..(i - 1) : cs[j].area < cs[i].area]

(* cow_nose_processor._auto_detect_nose_area: without contours the centred *)
(* square of side min(w, h) // 3, otherwise the bounding rectangle of the  *)
(* largest contour, whatever its area, moved out by the padding on the     *)
(* left and top and widened by twice the padding; cv2.resize raises on an  *)
(* empty slice, which the except turns to None.                            *)
AutoDetectNoseArea(img) ==
    LET cols ==
          IF img.contours = << >>
          THEN LET nose_size == Min(img.w, img.h) \div 3
                   x1 == Max(0, img.w \div 2 - nose_size \div 2)
               IN SliceBounds(x1, Min(img.w, x1 + nose_size), img.w)
          ELSE LET c == LargestContour(img.contours)
                   x == Max(0, c.x - Padding)
                   w == Min(img.w - x, c.w + 2 * Padding)
               IN SliceBounds(x, x + w, img.w)
        rows ==
          IF img.contours = << >>
          THEN LET nose_size == Min(img.w, img.h) \div 3
                   y1 == Max(0, img.h \div 2 - nose_size \div 2)
               IN SliceBounds(y1, Min(img.h, y1 + nose_size), img.h)
          ELSE LET c == LargestContour(img.contours)
                   y == Max(0, c.y - Padding)
                   h == Min(img.h - y, c.h + 2 * Padding)
               IN SliceBounds(y, y + h, img.h)
    IN IF cols.lo = cols.hi \/ rows.lo = rows.hi
       THEN NoRegion
       ELSE Region(cols, rows)

(* _auto_detect_nose_area applied to the drawn image. *)
AutoDetectNoseAreaCall ==
    /\ calc.pc = "input" /\ calc.kind = "auto"
    /\ calc' = [calc EXCEPT !.pc = "done", !.fn = "_auto_detect_nose_area",
                            !.out = AutoDetectNoseArea(calc.img)]
    /\ UNCHANGED <<loan_applications, req, last_success, started, processor>>

(* What cv2.moments hands to _extract_nose_pattern: per key a float that   *)
(* is a number, NaN or an infinity.                                        *)
Finite(v) == [cls |-> "finite", v |-> v]

NaN == [cls |-> "nan", v |-> 0]

Inf == [cls |-> "inf", v |-> 0]

MomentInputs ==
    {[pc |-> "input", kind |-> "moments", fn |-> "none", moments |-> m,
      out |-> [keys |-> {}, v |-> m]] :
        m \in [MomentKeys -> {Finite(0), Finite(4), NaN, Inf}]}

(* The 'moments' entry of the pattern data:                                *)
(* {k: v for k, v in moments.items() if not np.isnan(v)}.                  *)
FilterMoments(moments) ==
    [keys |-> {k \in DOMAIN moments : moments[k].cls # "nan"}, v |-> moments]

(* _extract_nose_pattern building that entry from the drawn moments. *)
ExtractNosePatternCall ==
    /\ calc.pc = "input" /\ calc.kind = "moments"
    /\ calc' = [calc EXCEPT !.pc = "done", !.fn = "_extract_nose_pattern",
                            !.out = FilterMoments(calc.moments)]
    /\ UNCHANGED <<loan_applications, req, last_success, started, processor>>

InitFn ==
    /\ loan_applications = [a \in AppIds |-> AbsentApplication]
    /\ req = [r \in AllReqs |-> IdleRequest]
    /\ last_success = [a \in AppIds |-> NoFingerprint]
    /\ started = 0
    /\ processor = NewProcessor
    /\ \/ calc \in RegionInputs
       \/ calc \in VectorInputs
       \/ calc \in DataInputs
       \/ calc \in HashInputs
       \/ calc \in QualityInputs
       \/ calc \in AutoInputs
       \/ calc \in MomentInputs

NextFn ==
    \/ ExtractNoseAreaCall
    \/ ExtractManualNoseAreaCall
    \/ ComparePatternsCall
    \/ CompareNosePatternsCall
    \/ GeneratePatternHashCall
    \/ CalculatePatternConfidenceCall
    \/ AssessPatternQualityCall
    \/ AutoDetectNoseAreaCall
    \/ ExtractNosePatternCall

SpecFn == InitFn /\ [][NextFn]_vars

(* ------------- calls of the pipeline next to the route ----------------- *)
(* Two calls of process_cow_face_with_manual_zoom on the shared instance,  *)
(* advanced one method at a time in any order, while the route stores      *)
(* fingerprints.                                                           *)
PureCalls == {1, 2}

PipelineImages == {ImgA, ImgRelit, ImgCorrupt}

PipelineFailure(error) ==
    [success |-> FALSE, error |-> error,
     pattern_features |-> NoFeatures, pattern_hash |-> NoHash,
     pattern_confidence |-> 0]

(* The locals of one call: its arguments, where it stands and what it has  *)
(* computed so far.                                                        *)
PipelineCall(img, zoom) ==
    [img |-> img, zoom |-> zoom, stage |-> "start", nose_area |-> "None",
     pattern_features |-> NoFeatures, pattern_hash |-> NoHash,
     result |-> PipelineFailure("none")]

PipelineInputs ==
    {[pc |-> "input", kind |-> "pipeline", fn |-> "none", call |-> c,
      compared |-> FALSE, similarity |-> [num |-> 0, den |-> 1]] :
        c \in [PureCalls -> {PipelineCall(img, zoom) :
                               img \in PipelineImages, zoom \in Crops}]}

(* Decoding and _extract_nose_area; the except clause and the None test    *)
(* end the call without success.                                           *)
PipelineExtract(i) ==
    /\ calc.call[i].stage = "start"
    /\ LET c == calc.call[i]
       IN calc' = [calc EXCEPT !.call[i] =
            IF ~c.img.decodable
            THEN [c EXCEPT !.stage = "done", !.result = PipelineFailure("exception")]
            ELSE IF ExtractNoseArea(c.img, c.zoom) = "None"
            THEN [c EXCEPT !.stage = "done",
                           !.result = PipelineFailure("Invalid zoom coordinates provided")]
            ELSE [c EXCEPT !.stage = "features", !.nose_area = "region"]]
    /\ UNCHANGED <<loan_applications, req, last_success, started, processor>>

(* _enhance_nose_quality and _extract_nose_pattern on the call's region. *)
PipelineFeatures(i) ==
    /\ calc.call[i].stage = "features"
    /\ calc' = [calc EXCEPT !.call[i].stage = "hash",
                            !.call[i].pattern_features =
                                ExtractNosePattern(calc.call[i].img)]
    /\ UNCHANGED <<loan_applications, req, last_success, started, processor>>

(* Variant: the digest is also kept as an attribute of the instance. *)
PipelineHash_OnInstance(i) ==
    /\ calc.call[i].stage = "hash"
    /\ calc' = [calc EXCEPT !.call[i].stage = "return",
                            !.call[i].pattern_hash =
                                GeneratePatternHash(calc.call[i].pattern_features)]
    /\ processor' = [processor EXCEPT !.pattern_threshold = 80]
    /\ UNCHANGED <<loan_applications, req, last_success, started>>

(* _generate_pattern_hash on the call's feature vector. *)
PipelineHash(i) ==
    /\ calc.call[i].stage = "hash"
    /\ calc' = [calc EXCEPT !.call[i].stage = "return",
                            !.call[i].pattern_hash =
                                GeneratePatternHash(calc.call[i].pattern_features)]
    /\ UNCHANGED <<loan_applications, req, last_success, started, processor>>

(* _calculate_pattern_confidence and the returned dictionary. *)
PipelineReturn(i) ==
    /\ calc.call[i].stage = "return"
    /\ LET c == calc.call[i]
       IN calc' = [calc EXCEPT !.call[i].stage = "done",
                               !.call[i].result =
                  [success |-> TRUE, error |-> "",
                   pattern_features |-> c.pattern_features,
                   pattern_hash |-> c.pattern_hash,
                   pattern_confidence |-> CalculatePatternConfidence(c.img)]]
    /\ UNCHANGED <<loan_applications, req, last_success, started, processor>>

(* compare_patterns on the feature vectors of two finished calls. *)
PipelineCompare ==
    /\ ~calc.compared
    /\ \A i \in PureCalls : calc.call[i].stage = "done" /\ calc.call[i].result.success
    /\ calc' = [calc EXCEPT !.compared = TRUE,
                            !.similarity =
                                ComparePatterns(calc.call[1].result.pattern_features,
                                                calc.call[2].result.pattern_features)]
    /\ UNCHANGED <<loan_applications, req, last_success, started, processor>>

InitPure ==
    /\ loan_applications = [a \in AppIds |-> AbsentApplication]
    /\ req = [r \in AllReqs |-> IdleRequest]
    /\ last_success = [a \in AppIds |-> NoFingerprint]
    /\ started = 0
    /\ processor = NewProcessor
    /\ calc \in PipelineInputs

NextPure ==
    \/ \E i \in PureCalls : PipelineExtract(i)
    \/ \E i \in PureCalls : PipelineFeatures(i)
    \/ \E i \in PureCalls : PipelineHash(i)
    \/ \E i \in PureCalls : PipelineReturn(i)
    \/ PipelineCompare
    \/ \E op \in Operators : CreateLoanApplication(op, 1)
    \/ \E op \in Operators :
         /\ started < MaxRequests
         /\ ProcessBegin(1, op, 1, ImgA, Rect(0, 0, ImgSize, ImgSize), TRUE)
    \/ ProcessFindExisting(1, TRUE)
    \/ ProcessUpdate(1, TRUE)
    \/ Return(1)

SpecPure == InitPure /\ [][NextPure]_vars

(* ---------------- the request loop during processing ------------------- *)
(* The routes are coroutines of one event loop: a coroutine keeps the      *)
(* loop's thread from one await to the next.  The route calls              *)
(* process_cow_face_with_manual_zoom directly (no await, no executor), so  *)
(* the call in progress occupies the loop; calc is that call.              *)
LoopFree == [pc |-> "free", kind |-> "loop", fn |-> "none", by |-> 0,
             img |-> ImgCorrupt, zoom |-> Rect(0, 0, 0, 0)]

LoopImages == {ImgA, ImgBlack}

LoopOperators == {1, 2}

(* The ownership find_one has returned and the coroutine is resumed: 404,  *)
(* or into the processor's call.                                           *)
ProcessEnter(r, op, a, img, zoom) ==
    /\ calc = LoopFree
    /\ FreeSlot(r)
    /\ LET owned == FindOwned(op, a)
           base == [IdleRequest EXCEPT !.kind = "process", !.operator = op,
                                       !.application_id = a, !.subject = a]
       IN IF ~owned
          THEN /\ req' = [req EXCEPT ![r] = [base EXCEPT !.pc = "done", !.status = 404]]
               /\ calc' = calc
          ELSE /\ req' = [req EXCEPT ![r] = [base EXCEPT !.pc = "processing"]]
               /\ calc' = [LoopFree EXCEPT !.pc = "running", !.by = r,
                                           !.img = img, !.zoom = zoom]
    /\ started' = started + 1
    /\ UNCHANGED <<loan_applications, last_success, processor>>

(* The processor's call returns and the coroutine goes on to its next      *)
(* await (the duplicate query) or to its 400.                              *)
ProcessLeave(r) ==
    /\ calc.pc = "running" /\ calc.by = r
    /\ req' = [req EXCEPT ![r] =
                 AfterProcessing(req[r], ProcessCowFaceWithManualZoom(calc.img, calc.zoom))]
    /\ calc' = LoopFree
    /\ UNCHANGED <<loan_applications, last_success, started, processor>>

(* The loop resumes a coroutine whose await has completed. *)
ResumeFindExisting(r) == calc = LoopFree /\ ProcessFindExisting(r, TRUE)

ResumeUpdate(r) == calc = LoopFree /\ ProcessUpdate(r, TRUE)

ResumeReturn(r) == calc = LoopFree /\ Return(r)

InitLoop ==
    /\ loan_applications = [a \in AppIds |-> AbsentApplication]
    /\ req = [r \in AllReqs |-> IdleRequest]
    /\ last_success = [a \in AppIds |-> NoFingerprint]
    /\ started = 0
    /\ processor = NewProcessor
    /\ calc = LoopFree

(* What the loop can do for the requests other than r. *)
ServeOther(r) ==
    \E q \in RaceReqs \ {r} :
       \/ \E op \in LoopOperators, a \in RaceApps, img \in LoopImages :
            ProcessEnter(q, op, a, img, Rect(0, 0, ImgSize, ImgSize))
       \/ ResumeFindExisting(q)
       \/ ResumeUpdate(q)
       \/ ResumeReturn(q)

NextLoop ==
    \/ \E op \in LoopOperators, a \in RaceApps : CreateLoanApplication(op, a)
    \/ \E r \in RaceReqs, op \in LoopOperators, a \in RaceApps, img \in LoopImages :
         /\ started < MaxRequests
         /\ ProcessEnter(r, op, a, img, Rect(0, 0, ImgSize, ImgSize))
    \/ \E r \in RaceReqs : ProcessLeave(r)
    \/ \E r \in RaceReqs : ResumeFindExisting(r)
    \/ \E r \in RaceReqs : ResumeUpdate(r)
    \/ \E r \in RaceReqs : ResumeReturn(r)

SpecLoop == InitLoop /\ [][NextLoop]_vars

TypeOK ==
    /\ \A a \in AppIds : loan_applications[a].state \in {"absent", "present", "deleted"}
    /\ \A a \in AppIds :
          loan_applications[a].status \in {"pending", "verified", "approved", "rejected"}
    /\ \A r \in AllReqs :
          req[r].pc \in {"idle", "processing", "query", "update", "done",
                         "operator", "decide", "verify"}

(* ------------------------------ properties ----------------------------- *)
(* The step in which request r gets the answer of its duplicate query. *)
QueryStep(r) == ~req[r].queried /\ req'[r].queried

(* The applications other than a whose stored hash is h. *)
OthersStoring(h, a) ==
    {b \in AppIds : /\ b # a
                    /\ loan_applications[b].state = "present"
                    /\ loan_applications[b].nose_pattern_hash = h}

(* C1: whenever a duplicate query runs for application A with hash h while *)
(* another application stores h, the verdict is is_duplicate = TRUE and    *)
(* the matched application is one that stores h (decided on the hash       *)
(* alone, whatever the similarity of the descriptors).                     *)
C1_ExactHashDuplicate ==
    [][\A r \in AllReqs :
         (QueryStep(r) /\ OthersStoring(req'[r].pattern_hash, req'[r].subject) # {})
         => /\ req'[r].is_duplicate
            /\ req'[r].duplicate_application # NoApp
            /\ loan_applications[req'[r].duplicate_application].state = "present"
            /\ loan_applications[req'[r].duplicate_application].nose_pattern_hash
                 = req'[r].pattern_hash]_vars

(* A submission matched on the hash to an application whose descriptor is  *)
(* a different one (the same nose under other lighting).                   *)
C1_Witness ==
    \E r \in AllReqs :
       /\ req[r].kind = "process" /\ req[r].pc = "update"
       /\ req[r].is_duplicate
       /\ req[r].duplicate_application # req[r].application_id
       /\ loan_applications[req[r].duplicate_application].nose_pattern_hash
            = req[r].pattern_hash
       /\ loan_applications[req[r].duplicate_application].nose_pattern_features
            # req[r].pattern_features

(* The stored descriptors a new descriptor f is similar to, other than a's. *)
SimilarCandidates(f, a) ==
    {b \in AppIds : /\ b # a
                    /\ loan_applications[b].state = "present"
                    /\ loan_applications[b].processed
                    /\ ExceedsThreshold(
                         ComparePatterns(f, loan_applications[b].nose_pattern_features))}

(* C2: when no other application stores the same hash, the verdict is      *)
(* Duplicate, matched to a stored application whose descriptor is similar  *)
(* above the threshold, if there is one, and Unique otherwise.             *)
C2_SimilarityFallback ==
    [][\A r \in AllReqs :
         (/\ QueryStep(r) /\ req'[r].kind = "process"
          /\ OthersStoring(req'[r].pattern_hash, req'[r].application_id) = {})
         => IF SimilarCandidates(req'[r].pattern_features, req'[r].application_id) # {}
            THEN /\ req'[r].is_duplicate
                 /\ req'[r].duplicate_application
                      \in SimilarCandidates(req'[r].pattern_features,
                                            req'[r].application_id)
            ELSE ~req'[r].is_duplicate]_vars

(* C3: two applications never both store the same hash while both are      *)
(* marked not duplicate.                                                   *)
C3_AtMostOneUnique ==
    \A a, b \in AppIds :
       (/\ a # b
        /\ loan_applications[a].state = "present" /\ loan_applications[a].processed
        /\ loan_applications[b].state = "present" /\ loan_applications[b].processed
        /\ loan_applications[a].nose_pattern_hash = loan_applications[b].nose_pattern_hash)
       => (loan_applications[a].is_duplicate_pattern
           \/ loan_applications[b].is_duplicate_pattern)

(* C4: a request whose access to the store raised ends with an error       *)
(* response, carries no verdict, and the step writes nothing.              *)
C4_FailClosed ==
    [][\A r \in AllReqs :
         (req'[r].store_failed /\ ~req[r].store_failed)
         => /\ req'[r].pc = "done" /\ req'[r].status = 500
            /\ ~req'[r].is_duplicate /\ req'[r].duplicate_application = NoApp
            /\ ~req'[r].wrote
            /\ loan_applications' = loan_applications]_vars

(* The duplicate query of a submission has raised: 500, and the requester  *)
(* has no fingerprint.                                                     *)
C4_Witness ==
    \E r \in AllReqs :
       /\ req[r].kind = "process" /\ req[r].store_failed
       /\ req[r].operator # 0 /\ ~req[r].queried
       /\ req[r].status = 500
       /\ loan_applications[req[r].application_id].state = "present"
       /\ ~loan_applications[req[r].application_id].processed

(* C5: the fingerprint an application stores is the one of its most recent *)
(* successful submission, whole (hash, descriptor and confidence of the    *)
(* same submission); an application never submitted stores none.           *)
C5_Supersede ==
    \A a \in AppIds :
       loan_applications[a].state = "present"
       => /\ [features |-> loan_applications[a].nose_pattern_features,
              hash |-> loan_applications[a].nose_pattern_hash,
              confidence |-> loan_applications[a].nose_pattern_confidence]
               = last_success[a]
          /\ loan_applications[a].processed <=> last_success[a] # NoFingerprint

(* Application b was matched to a, and a has since been re-submitted with  *)
(* another image: a's fingerprint is the new one.                          *)
C5_Witness ==
    \E a, b \in AppIds :
       /\ a # b
       /\ loan_applications[a].state = "present" /\ loan_applications[a].processed
       /\ loan_applications[b].state = "present"
       /\ loan_applications[b].is_duplicate_pattern
       /\ loan_applications[b].duplicate_application_id = a
       /\ loan_applications[a].nose_pattern_hash # loan_applications[b].nose_pattern_hash
       /\ last_success[a].hash = loan_applications[a].nose_pattern_hash

(* C6 as stated: no duplicate check made for application A, by either      *)
(* route, reports A itself.                                                *)
C6_SelfExclusion ==
    \A r \in AllReqs :
       (req[r].status = 200 /\ req[r].is_duplicate)
       => req[r].duplicate_application # req[r].subject

(* C6 amended: a duplicate query that names the application it is made for *)
(* never reports that application, and reports no duplicate when no other  *)
(* application stores the hash.                                            *)
C6_SelfExclusionWhenNamed ==
    [][\A r \in AllReqs :
         (QueryStep(r) /\ req'[r].application_id # NoApp)
         => /\ req'[r].is_duplicate
                 => req'[r].duplicate_application # req'[r].application_id
            /\ OthersStoring(req'[r].pattern_hash, req'[r].application_id) = {}
                 => ~req'[r].is_duplicate]_vars

(* The image an application already stores is submitted again for it and   *)
(* the verdict is not duplicate.                                           *)
C6_Witness ==
    \E r \in AllReqs :
       /\ req[r].kind = "process" /\ req[r].pc = "update"
       /\ ~req[r].is_duplicate
       /\ loan_applications[req[r].application_id].state = "present"
       /\ loan_applications[req[r].application_id].nose_pattern_hash
            = req[r].pattern_hash

(* C7: image A for application 1, a near-identical image for 2, A again    *)
(* for 3 and an unrelated image for 4 end as Unique, Duplicate of 1,       *)
(* Duplicate of 1 and Unique.                                              *)
ScenarioDone ==
    /\ \A a \in 1..4 : loan_applications[a].state = "present"
                       /\ loan_applications[a].processed
    /\ loan_applications[1].nose_pattern_features = ExtractNosePattern(ImgA)
    /\ loan_applications[2].nose_pattern_features = ExtractNosePattern(ImgNear)
    /\ loan_applications[3].nose_pattern_features = ExtractNosePattern(ImgA)
    /\ loan_applications[4].nose_pattern_features = ExtractNosePattern(ImgOther)

C7_DuplicateFlowScenario ==
    ScenarioDone
    => /\ ~loan_applications[1].is_duplicate_pattern
       /\ loan_applications[2].is_duplicate_pattern
       /\ loan_applications[2].duplicate_application_id = 1
       /\ loan_applications[3].is_duplicate_pattern
       /\ loan_applications[3].duplicate_application_id = 1
       /\ ~loan_applications[4].is_duplicate_pattern

(* C8 as stated: only submissions that ended Unique leave a fingerprint. *)
C8_PersistedOnlyWhenUnique ==
    \A a \in AppIds :
       (loan_applications[a].state = "present"
        /\ loan_applications[a].is_duplicate_pattern)
       => loan_applications[a].nose_pattern_hash = NoHash

(* C8 amended: every submission that returns success writes its            *)
(* fingerprint and its verdict on the requester, Duplicate or Unique.      *)
C8_PersistedWithVerdict ==
    [][\A r \in AllReqs :
         (/\ req[r].pc = "update" /\ req'[r].status = 200
          /\ loan_applications[req[r].application_id].state = "present")
         => LET doc == loan_applications'[req[r].application_id]
            IN /\ doc.nose_pattern_hash = req[r].pattern_hash
               /\ doc.nose_pattern_features = req[r].pattern_features
               /\ doc.nose_pattern_confidence = req[r].pattern_confidence
               /\ doc.is_duplicate_pattern = req[r].is_duplicate
               /\ doc.duplicate_application_id = req[r].duplicate_application]_vars

(* A submission got Duplicate and its hash is stored with the annotation. *)
C8_Witness ==
    \E r \in AllReqs :
       /\ req[r].kind = "process" /\ req[r].status = 200 /\ req[r].wrote
       /\ req[r].is_duplicate
       /\ loan_applications[req[r].application_id].is_duplicate_pattern
       /\ loan_applications[req[r].application_id].nose_pattern_hash
            = req[r].pattern_hash
       /\ req[r].pattern_hash # NoHash

(* C9: a submission whose processing gives no fingerprint ends at once     *)
(* with an error, without a duplicate query and without a write; only a    *)
(* complete fingerprint goes on to the query.                              *)
C9_RejectedLeavesNoTrace ==
    [][\A r \in AllReqs :
         (req[r].pc = "idle" /\ req'[r].kind = "process")
         => IF req'[r].pattern_hash = NoHash
            THEN /\ req'[r].pc = "done"
                 /\ req'[r].status \in {400, 404, 500}
                 /\ ~req'[r].queried /\ ~req'[r].wrote
                 /\ loan_applications' = loan_applications
            ELSE /\ req'[r].pc = "query"
                 /\ req'[r].pattern_features # NoFeatures]_vars

(* A rejected submission for an application that keeps the fingerprint it  *)
(* had: the same one as its last successful submission.                    *)
C9_Witness ==
    \E r \in AllReqs :
       /\ req[r].kind = "process" /\ req[r].pc = "done" /\ req[r].status = 400
       /\ ~req[r].queried
       /\ loan_applications[req[r].application_id].state = "present"
       /\ loan_applications[req[r].application_id].processed
       /\ loan_applications[req[r].application_id].nose_pattern_hash
            = last_success[req[r].application_id].hash

(* C10: no submission of a uniform region gets past processing, and no     *)
(* fingerprint of a uniform region is stored.                              *)
UniformDescriptor(f) == f # NoFeatures /\ f[3] = 0

C10_DegenerateRejected ==
    /\ \A r \in AllReqs : ~UniformDescriptor(req[r].pattern_features)
    /\ \A a \in AppIds : ~UniformDescriptor(loan_applications[a].nose_pattern_features)

(* The crop rectangle cut to the image bounds. *)
ClampedRect(img, zoom) ==
    [x0 |-> Max(0, zoom.x), x1 |-> Min(img.w, zoom.x + zoom.width),
     y0 |-> Max(0, zoom.y), y1 |-> Min(img.h, zoom.y + zoom.height)]

PositiveArea(img, zoom) ==
    /\ ClampedRect(img, zoom).x0 < ClampedRect(img, zoom).x1
    /\ ClampedRect(img, zoom).y0 < ClampedRect(img, zoom).y1

PartlyOutside(img, zoom) ==
    \/ zoom.x < 0 \/ zoom.y < 0
    \/ zoom.x + zoom.width > img.w \/ zoom.y + zoom.height > img.h

(* C11: a crop rectangle that leaves the image but overlaps it on a        *)
(* positive area is extracted, and the region extracted is the rectangle   *)
(* clamped to the image.                                                   *)
C11_RegionClamped ==
    (/\ calc.pc = "done" /\ calc.kind = "region"
     /\ PartlyOutside(calc.img, calc.zoom) /\ PositiveArea(calc.img, calc.zoom))
    => /\ calc.out.ok
       /\ calc.out.x0 = ClampedRect(calc.img, calc.zoom).x0
       /\ calc.out.x1 = ClampedRect(calc.img, calc.zoom).x1
       /\ calc.out.y0 = ClampedRect(calc.img, calc.zoom).y0
       /\ calc.out.y1 = ClampedRect(calc.img, calc.zoom).y1

(* C12: a crop rectangle whose overlap with the image has no area (zero or *)
(* negative extent, or wholly outside) yields no region.                   *)
C12_ZeroAreaFails ==
    (/\ calc.pc = "done" /\ calc.kind = "region"
     /\ ~PositiveArea(calc.img, calc.zoom))
    => ~calc.out.ok

(* The weights of the four sub-comparisons, in tenths. *)
TermWeights == <<4, 3, 2, 1>>

C14_SimilarityReflexive ==
    /\ (calc.pc = "done" /\ calc.kind = "vectors" /\ calc.a = calc.b)
         => calc.out.num = calc.out.den
    /\ (calc.pc = "done" /\ calc.kind = "data" /\ calc.a = calc.b)
         => calc.out = 10 * Scale

(* C15: the comparison gives the same value in both orders. *)
C15_SimilaritySymmetric ==
    /\ (calc.pc = "done" /\ calc.kind = "vectors")
         => calc.out = ComparePatterns(calc.b, calc.a)
    /\ (calc.pc = "done" /\ calc.kind = "data")
         => calc.out = CompareNosePatterns(calc.b, calc.a)

(* Two different descriptors, one without statistics and with a histogram  *)
(* of another size than the other's, have been compared.                   *)
C15_Witness ==
    /\ calc.pc = "done" /\ calc.kind = "data"
    /\ calc.a.image_stats.keys = {"mean"} /\ calc.b.image_stats.keys = StatKeys
    /\ calc.a.image_stats.v["mean"] # calc.b.image_stats.v["mean"]
    /\ calc.a.lbp_histogram = << >> /\ calc.b.lbp_histogram # << >>
    /\ calc.out > 0

(* The parts of the pattern data, and a part being missing in d. *)
PartMissing(d, i) ==
    IF i = 1 THEN d.lbp_histogram = << >>
    ELSE IF i = 2 THEN d.edge_histogram = << >>
    ELSE IF i = 3 THEN d.image_stats.keys = {}
    ELSE d.moments.keys = {}

(* C16: when a part is missing in either descriptor (and the histograms    *)
(* both have are of one size), the comparison returns, that part's term is *)
(* 0 and the result is the capped sum of the remaining terms.              *)
C16_MissingContributesZero ==
    (/\ calc.pc = "done" /\ calc.kind = "data"
     /\ ~HistRaises(calc.a.lbp_histogram, calc.b.lbp_histogram)
     /\ ~HistRaises(calc.a.edge_histogram, calc.b.edge_histogram))
    => LET missing == {i \in 1..4 : PartMissing(calc.a, i) \/ PartMissing(calc.b, i)}
           counted == [i \in 1..4 |-> IF i \in missing THEN 0
                                      ELSE WeightedTerms(calc.a, calc.b)[i]]
       IN /\ \A i \in missing : WeightedTerms(calc.a, calc.b)[i] = 0
          /\ calc.out = Min(10 * Scale, SumSeq(counted))

(* A comparison in which one descriptor has no LBP histogram and the other *)
(* parts still count.                                                      *)
C16_Witness ==
    /\ calc.pc = "done" /\ calc.kind = "data"
    /\ calc.a.lbp_histogram = << >> /\ calc.b.lbp_histogram # << >>
    /\ calc.a.edge_histogram = calc.b.edge_histogram /\ calc.a.edge_histogram # << >>
    /\ calc.a.moments.keys = {}
    /\ calc.out >= 3 * Scale

C19_LowQualityProceeds ==
    [][\A r \in AllReqs :
         /\ (req[r].pc = "idle" /\ req'[r].kind = "process")
              => \A op \in Operators, img \in Images, zoom \in Crops :
              (/\ loan_applications[req'[r].application_id].state = "present"
               /\ loan_applications[req'[r].application_id].operator_id = op
               /\ ProcessCowFaceWithManualZoom(img, zoom).success
               /\ ProcessBegin(r, op, req'[r].application_id, img, zoom, TRUE))
              => /\ req'[r].pc = "query"
                 /\ req'[r].pattern_hash
                      = ProcessCowFaceWithManualZoom(img, zoom).pattern_hash
                 /\ req'[r].pattern_confidence
                      = ProcessCowFaceWithManualZoom(img, zoom).pattern_confidence
         /\ (/\ req[r].kind = "process" /\ req[r].pc = "query"
             /\ req'[r] # req[r] /\ ~req'[r].store_failed)
              => /\ req'[r].pc = "update" /\ req'[r].queried
                 /\ req'[r].pattern_confidence = req[r].pattern_confidence
         /\ (/\ req[r].kind = "process" /\ req[r].pc = "update"
             /\ req'[r] # req[r] /\ ~req'[r].store_failed)
              => /\ req'[r].pc = "done" /\ req'[r].status = 200
                 /\ loan_applications[req[r].application_id].state = "present"
                      => loan_applications'[req[r].application_id].nose_pattern_confidence
                           = req[r].pattern_confidence]_vars

(* A submission of confidence below one half has ended with success and a  *)
(* Duplicate verdict, its confidence stored.                               *)
C19_Witness ==
    \E r \in AllReqs :
       /\ req[r].kind = "process" /\ req[r].status = 200 /\ req[r].wrote
       /\ req[r].is_duplicate
       /\ req[r].pattern_confidence < 500
       /\ loan_applications[req[r].application_id].nose_pattern_confidence
            = req[r].pattern_confidence

(* C20: every stored fingerprint carries the version of the extractor      *)
(* configuration that produced it.                                         *)
C20_VersionRecorded ==
    \A a \in AppIds :
       (loan_applications[a].state = "present" /\ loan_applications[a].processed)
       => "extractor_version" \in DOMAIN loan_applications[a]

(* C21: a request that ends with a Duplicate verdict for application A     *)
(* naming application B writes on A's document only: every other document, *)
(* B's included, is what it was before the step, and the read-only check   *)
(* route writes on none.                                                   *)
C21_VerdictOnRequesterOnly ==
    [][\A r \in AllReqs :
          (req[r].pc # "done" /\ req'[r].pc = "done" /\ req'[r].is_duplicate) =>
             \A b \in AppIds :
                (req'[r].kind = "check" \/ b # req'[r].application_id) =>
                   loan_applications'[b] = loan_applications[b]]_vars

C21_Witness ==
    \E r \in AllReqs :
       LET a == req[r].application_id
           b == req[r].duplicate_application
       IN /\ req[r].pc = "done" /\ req[r].kind = "process" /\ req[r].wrote
          /\ req[r].is_duplicate /\ b # a /\ Present(b)
          /\ loan_applications[a].is_duplicate_pattern
          /\ loan_applications[a].duplicate_application_id = b
          /\ loan_applications[b].nose_pattern_hash = req[r].pattern_hash
          /\ ~loan_applications[b].is_duplicate_pattern


(* C22: a call of the pipeline returns what the same call returns when it  *)
(* runs alone, however its methods interleave with those of another call   *)
(* and with the route; no step of a call touches the collection and no     *)
(* step at all changes the attributes of the shared instance.              *)
C22_PipelinePure ==
    /\ [](/\ \A i \in PureCalls :
              calc.call[i].stage = "done" =>
                 calc.call[i].result =
                    ProcessCowFaceWithManualZoom(calc.call[i].img, calc.call[i].zoom)
          /\ calc.compared =>
                 calc.similarity = ComparePatterns(ExtractNosePattern(calc.call[1].img),
                                                   ExtractNosePattern(calc.call[2].img)))
    /\ [][/\ processor' = processor
          /\ calc' # calc => loan_applications' = loan_applications]_vars

C22_Witness ==
    /\ calc.compared
    /\ calc.call[1].img # calc.call[2].img
    /\ processor = NewProcessor
    /\ loan_applications[1].processed
    /\ loan_applications[1].nose_pattern_hash = calc.call[1].result.pattern_hash
    /\ req[1].pc = "query"

(* C23: while the image of one request is being processed the loop can    *)
(* accept or advance another request.                                      *)
C23_LoopServesOthers ==
    \A r \in RaceReqs : req[r].pc = "processing" => ENABLED ServeOther(r)

(* C24: without a crop the extractor takes the padded bounding rectangle   *)
(* of the largest contour only when that contour has some area (no floor   *)
(* admits a contour of area 0), and the centred square of side             *)
(* min(W, H) div 3 when no contour qualifies; either way the rectangle     *)
(* lies inside the image and has positive area.                            *)
CentredSquare(img) ==
    LET side == Min(img.w, img.h) \div 3
        x1 == Max(0, img.w \div 2 - side \div 2)
        y1 == Max(0, img.h \div 2 - side \div 2)
    IN [ok |-> TRUE, x0 |-> x1, x1 |-> Min(img.w, x1 + side),
        y0 |-> y1, y1 |-> Min(img.h, y1 + side)]

C24_AutoRegionFallback ==
    (calc.pc = "done" /\ calc.fn = "_auto_detect_nose_area") =>
       /\ calc.out.ok
       /\ 0 <= calc.out.x0 /\ calc.out.x0 < calc.out.x1 /\ calc.out.x1 <= calc.img.w
       /\ 0 <= calc.out.y0 /\ calc.out.y0 < calc.out.y1 /\ calc.out.y1 <= calc.img.h
       /\ (\A i \in 1..Len(calc.img.contours) : calc.img.contours[i].area = 0)
             => calc.out = CentredSquare(calc.img)

C26_DuplicateReferenceValid ==
    \A a \in AppIds :
       (Present(a) /\ loan_applications[a].is_duplicate_pattern) =>
          LET b == loan_applications[a].duplicate_application_id
          IN /\ b # NoApp /\ b # a
             /\ Present(b)
             /\ loan_applications[b].nose_pattern_hash
                  = loan_applications[a].nose_pattern_hash

(* C27: every step that makes an application's status APPROVED finds it    *)
(* VERIFIED.                                                               *)
C27_ApprovedOnlyFromVerified ==
    [][\A a \in AppIds :
          (loan_applications[a].status # "approved"
           /\ loan_applications'[a].status = "approved")
          => loan_applications[a].status = "verified"]_vars

(* C28: no step takes an application's status from APPROVED to PENDING,    *)
(* VERIFIED or REJECTED.                                                   *)
C28_ApprovedStable ==
    [][\A a \in AppIds :
          (Present(a) /\ loan_applications[a].status = "approved")
          => loan_applications'[a].status = "approved"]_vars

(* C29: approve_ and reject_loan_application write on an application only *)
(* for the manager who created the operator owning it, and on that         *)
(* application only; for an application that does not exist the call ends  *)
(* with 404, for one of another manager's operator with 403, and no step   *)
(* of such a call changes any application.                                 *)
C29_ManagerScoping ==
    [][\A r \in RaceReqs :
          (req'[r] # req[r] /\ req'[r].kind \in {"approve", "reject"}) =>
             LET a == req'[r].application_id
                 mine == Present(a)
                         /\ CreatedBy(loan_applications[a].operator_id) = req'[r].manager
             IN /\ req'[r].status = 404 => ~Present(a)
                /\ req'[r].status = 403 => (Present(a) /\ ~mine)
                /\ (req'[r].pc = "done" /\ ~mine) =>
                      req'[r].status = IF Present(a) THEN 403 ELSE 404
                /\ req'[r].pc = "decide" => mine
                /\ IF req[r].pc = "decide"
                   THEN /\ mine
                        /\ \A b \in AppIds \ {a} :
                              loan_applications'[b] = loan_applications[b]
                   ELSE loan_applications' = loan_applications]_vars

(* One manager was refused for an application that the other manager then  *)
(* approved.                                                               *)
C29_Witness ==
    \E r \in RaceReqs, q \in RaceReqs :
       /\ req[r].pc = "done" /\ req[r].kind = "approve" /\ req[r].status = 403
       /\ req[q].pc = "done" /\ req[q].kind = "approve" /\ req[q].status = 200
       /\ req[q].application_id = req[r].application_id
       /\ loan_applications[req[q].application_id].status = "approved"
       /\ loan_applications[req[q].application_id].manager_id = req[q].manager
       /\ req[q].manager # req[r].manager

(* C30: a process_cow_face_manual_zoom request for an application that    *)
(* does not exist or belongs to another operator ends with 404 at its      *)
(* first step, before the processor is called and without a write; the     *)
(* fingerprint and the annotation are written only on an application of    *)
(* the calling operator.                                                   *)
C30_OwnerOnly ==
    [][\A r \in RaceReqs :
          LET a == req'[r].application_id
              owned == Present(a)
                       /\ loan_applications[a].operator_id = req'[r].operator
          IN /\ (req[r].pc = "idle" /\ req'[r].kind = "process") =>
                  IF owned
                  THEN req'[r].pc = "processing"
                  ELSE /\ req'[r].pc = "done" /\ req'[r].status = 404
                       /\ calc' = calc
                       /\ loan_applications' = loan_applications
             /\ (req[r].pc = "update" /\ req'[r].pc = "done"
                 /\ loan_applications' # loan_applications) =>
                  /\ owned
                  /\ \A b \in AppIds \ {a} :
                        loan_applications'[b] = loan_applications[b]]_vars

(* An operator was refused for an application on which its owner has       *)
(* stored a fingerprint.                                                   *)
C30_Witness ==
    \E r \in RaceReqs :
       LET a == req[r].application_id
       IN /\ req[r].pc = "done" /\ req[r].kind = "process" /\ req[r].status = 404
          /\ Present(a) /\ loan_applications[a].operator_id # req[r].operator
          /\ loan_applications[a].processed
          /\ last_success[a].hash = loan_applications[a].nose_pattern_hash

====
